---- MODULE Spec2Model ----
(***************************************************************************)
(* The media lightbox widget of the blog (initMediaLightbox and the        *)
(* functions it wires together) as a state machine over a small page.      *)
(*                                                                         *)
(* The page holds two overlays, each with a content slot and a close       *)
(* control, and three elements a target selector can match: an HTML image, *)
(* an SVG graphic and an element that is neither HTMLElement nor           *)
(* SVGElement.  The page elements live outside the overlays.               *)
(*                                                                         *)
(* One step of the model is one call the event loop makes into the widget: *)
(* a call of initMediaLightbox, or one registered listener running to      *)
(* completion.  Dispatching a DOM event queues the listeners on the        *)
(* event's propagation path in registration order, as the host does.       *)
(***************************************************************************)
EXTENDS Integers, Sequences, FiniteSets, TLC

\* ------------------------------------------------------------- the page

Null == "null"

Overlays == {"lb1", "lb2"}

CloseOf == [lb \in Overlays |-> IF lb = "lb1" THEN "close1" ELSE "close2"]

ContentOf == [lb \in Overlays |-> IF lb = "lb1" THEN "content1" ELSE "content2"]

CloneOf == [lb \in Overlays |-> IF lb = "lb1" THEN "clone1" ELSE "clone2"]

IconOf == [lb \in Overlays |-> IF lb = "lb1" THEN "icon1" ELSE "icon2"]

CloseButtons == {CloseOf[lb] : lb \in Overlays}

ContentSlots == {ContentOf[lb] : lb \in Overlays}

CloneNodes == {CloneOf[lb] : lb \in Overlays}

Elements == {"img1", "svg1", "math1", "p1"}

HTMLElements == {"img1", "p1"} \cup Overlays \cup CloseButtons \cup ContentSlots

SVGElements == {"svg1"} \cup {IconOf[lb] : lb \in Overlays}

Nodes == Elements \cup Overlays \cup CloseButtons \cup ContentSlots \cup CloneNodes \cup {"document", "body"}

\* The number of initMediaLightbox calls a run makes.
MaxInits == 3

\* ------------------------------------------------------------- options

DEFAULT_CLOSE_SELECTOR == "[data-close-lightbox]"

LightboxIds == Overlays \cup {"no-such-id"}

ContentIds == ContentSlots \cup {"no-such-id"}

CloseSelectors == {DEFAULT_CLOSE_SELECTOR, ".no-match", "svg.icon"}

TargetSelectors == {"img", "svg", "img, svg, math", ".nothing"}

\* document.getElementById
GetElementById(id) == IF id \in Overlays \cup ContentSlots THEN id ELSE Null

\* lightbox?.querySelector(closeSelector): undefined (Null here) when lightbox is null
QuerySelector(lightbox, selector) ==
    IF lightbox = Null THEN Null
    ELSE IF selector = DEFAULT_CLOSE_SELECTOR THEN CloseOf[lightbox]
    ELSE IF selector = "svg.icon" THEN IconOf[lightbox]
    ELSE Null

\* document.querySelectorAll(targetSelector)
QuerySelectorAll(selector) ==
    IF selector = "img" THEN {"img1"}
    ELSE IF selector = "svg" THEN {"svg1"}
    ELSE IF selector = "img, svg, math" THEN {"img1", "svg1", "math1"}
    ELSE IF selector = "p" THEN {"p1"}
    ELSE IF selector = "p, math" THEN {"p1", "math1"}
    ELSE {}

\* ------------------------------------------------------------- state

VARIABLES
    hidden,              \* [lb]: lightbox.classList.contains('hidden')
    ariaHidden,          \* [lb]: the overlay's aria-hidden attribute
    content,             \* [lb]: the children of the content slot, in order
    bodyOverflowHidden,  \* document.body.classList.contains('overflow-hidden')
    activeElement,       \* document.activeElement
    lightboxInitialized, \* [lb]: lightbox.dataset.lightboxInitialized === 'true'
    lastFocusedElement,  \* [lb]: state.lastFocusedElement of the overlay's closure
    lightboxBound,       \* [element]: dataset.lightboxBound === 'true'
    attrs,               \* [element]: its role, tabindex, aria-label and zoom class
    viewBox,             \* the viewBox attribute of the page's SVG
    innerWidth,          \* window.innerWidth
    innerHeight,         \* window.innerHeight
    listeners,           \* [type][node]: the listeners addEventListener registered
    event,               \* the event being dispatched (or the last one dispatched)
    defaultPrevented,    \* event.defaultPrevented
    pending,             \* listeners of the dispatch still to run
    ran,                 \* listeners of the dispatch that have run
    calls,               \* openLightbox / closeLightbox calls made by the dispatch
    lastInit,            \* the options of the initMediaLightbox call just made, and
                         \* whether the call before it returned for missing markup
    scrollBefore,        \* [lb]: whether the body was scroll-locked when lb last opened
    bindCalls,           \* [element]: bindMediaElement calls made on it so far
    inits                \* initMediaLightbox calls made so far

domVars == <<hidden, ariaHidden, content, bodyOverflowHidden, activeElement>>

widgetVars == <<lightboxInitialized, lastFocusedElement, lightboxBound, attrs, listeners>>

pageVars == <<viewBox, innerWidth, innerHeight>>

dispatchVars == <<event, defaultPrevented, pending, ran, calls>>

vars == <<hidden, ariaHidden, content, bodyOverflowHidden, activeElement,
          lightboxInitialized, lastFocusedElement, lightboxBound, attrs, listeners,
          viewBox, innerWidth, innerHeight, event, defaultPrevented, pending, ran, calls, lastInit, scrollBefore, bindCalls, inits>>

EventTypes == {"click", "keydown"}

NoEvent == [type |-> "none", target |-> Null, key |-> ""]

NoInit == [targetSelector |-> Null, lightboxId |-> Null, contentId |-> Null,
           closeSelector |-> Null, afterFailure |-> FALSE]

\* The text of an attribute is a sequence of lexemes: a run of whitespace, or a
\* run of other characters made of atoms (a number, a comma, other text).
Digits(v) == [k |-> "num", v |-> v]

Comma == [k |-> "comma", v |-> 0]

Letters == [k |-> "txt", v |-> 0]

Space == [ws |-> TRUE, atoms |-> <<>>]

Piece(atoms) == [ws |-> FALSE, atoms |-> atoms]

NoAttribute == [present |-> FALSE, value |-> <<>>]

Attribute(value) == [present |-> TRUE, value |-> value]

\* Four pieces separated by single spaces.
Spaced(a, b, c, d) == <<Piece(a), Space, Piece(b), Space, Piece(c), Space, Piece(d)>>

\* The attributes the page's author wrote on each element (Null: attribute absent):
\* the image declares a role, the SVG a tabindex and a label, so that each
\* attribute is present on one bindable element and absent on the other; image
\* and SVG carry width and height attributes, the image an inline style.
Authored ==
    [e \in Elements |->
        IF e = "img1"
        THEN [role |-> "img", tabindex |-> Null, ariaLabel |-> Null, cursorZoomIn |-> FALSE,
              width |-> "640", height |-> "480", style |-> "max-width: 100%"]
        ELSE IF e = "svg1"
        THEN [role |-> Null, tabindex |-> "-1", ariaLabel |-> "Schema", cursorZoomIn |-> FALSE,
              width |-> "400", height |-> "200", style |-> Null]
        ELSE [role |-> Null, tabindex |-> Null, ariaLabel |-> Null, cursorZoomIn |-> FALSE,
              width |-> Null, height |-> Null, style |-> Null]]

\* Host markup: overlays hidden with aria-hidden="true", empty slots, nothing bound.
Markup ==
    /\ hidden = [lb \in Overlays |-> TRUE]
    /\ ariaHidden = [lb \in Overlays |-> "true"]
    /\ content = [lb \in Overlays |-> <<>>]
    /\ bodyOverflowHidden = FALSE
    /\ activeElement = "body"
    /\ lightboxInitialized = [lb \in Overlays |-> FALSE]
    /\ lastFocusedElement = [lb \in Overlays |-> Null]
    /\ lightboxBound = [e \in Elements |-> FALSE]
    /\ attrs = Authored
    /\ listeners = [t \in EventTypes |-> [n \in Nodes |-> <<>>]]
    /\ event = NoEvent
    /\ defaultPrevented = FALSE
    /\ pending = <<>>
    /\ ran = <<>>
    /\ calls = <<>>
    /\ lastInit = NoInit
    /\ scrollBefore = [lb \in Overlays |-> FALSE]
    /\ bindCalls = [e \in Elements |-> 0]
    /\ inits = 0

\* The page: the markup, its SVG drawn in a 400 by 200 box, a 1000 by 800 window.
Init ==
    /\ Markup
    /\ viewBox = Attribute(Spaced(<<Digits(0)>>, <<Digits(0)>>, <<Digits(400)>>, <<Digits(200)>>))
    /\ innerWidth = 1000
    /\ innerHeight = 800

\* ------------------------------------------------------------- the widget

\* Mutant: every matched element is taken.
IsLightboxTarget_Any(element) == TRUE

\* element instanceof HTMLElement || element instanceof SVGElement
IsLightboxTarget(element) == element \in HTMLElements \cup SVGElements

\* Mutant: the bound marker is never consulted.
isAlreadyBound_Never(element) == FALSE

isAlreadyBound(element) == lightboxBound[element]

\* Mutant: the defaults are written whether or not the attribute is there.
ensureInteractiveAttributes_Overwrites(a) ==
    [a EXCEPT !.role = "button", !.tabindex = "0",
              !.ariaLabel = "Agrandir la visualisation", !.cursorZoomIn = TRUE]

\* The element's attributes after ensureInteractiveAttributes.
ensureInteractiveAttributes(a) ==
    [a EXCEPT !.role = IF a.role = Null THEN "button" ELSE a.role,
              !.tabindex = IF a.tabindex = Null THEN "0" ELSE a.tabindex,
              !.ariaLabel = IF a.ariaLabel = Null THEN "Agrandir la visualisation"
                            ELSE a.ariaLabel,
              !.cursorZoomIn = TRUE]

\* The guards of bindMediaElement: true when the element gets marked and wired.
BindsElement(element) == IsLightboxTarget(element) /\ ~isAlreadyBound(element)

\* ------------------------------------------------------------- vector sizing

\* const padding = 96
padding == 96

\* the floor of Math.max(320, window.innerWidth - padding)
minWidth == 320

\* the floor of Math.max(240, window.innerHeight - padding)
minHeight == 240

Max(a, b) == IF a >= b THEN a ELSE b

\* A JavaScript number as far as the sizing needs it: an integer, or NaN.
NaN == [nan |-> TRUE, v |-> 0]

Number(v) == [nan |-> FALSE, v |-> v]

\* x > 0, which is false of NaN
GreaterThanZero(x) == ~x.nan /\ x.v > 0

\* String.prototype.trim
RECURSIVE trimStart(_)
trimStart(s) == IF s # <<>> /\ Head(s).ws THEN trimStart(Tail(s)) ELSE s

RECURSIVE trimEnd(_)
trimEnd(s) == IF s # <<>> /\ s[Len(s)].ws THEN trimEnd(SubSeq(s, 1, Len(s) - 1)) ELSE s

trim(s) == trimEnd(trimStart(s))

\* String.prototype.split(/\s+/): the pieces between the whitespace runs, with an
\* empty piece before a leading run and after a trailing one; "" gives [""].
split(s) ==
    LET pieces == SelectSeq(s, LAMBDA l : ~l.ws)
        inner == [i \in 1..Len(pieces) |-> pieces[i].atoms]
    IN  IF s = <<>> THEN << <<>> >>
        ELSE (IF Head(s).ws THEN << <<>> >> ELSE <<>>) \o inner
                \o (IF s[Len(s)].ws THEN << <<>> >> ELSE <<>>)

\* parts[i] ?? '0' (i counted from 0, as in the source)
PartOrZero(parts, i) == IF i + 1 <= Len(parts) THEN parts[i + 1] ELSE <<Digits(0)>>

\* parseFloat: the number the text starts with, NaN when it starts with none
parseFloat(text) ==
    IF text # <<>> /\ text[1].k = "num" THEN Number(text[1].v) ELSE NaN

\* A CSS length: n/d pixels, or auto, or not set.
Px(n, d) == [unit |-> "px", n |-> n, d |-> d]

Auto == [unit |-> "auto", n |-> 0, d |-> 1]

Unset == [unit |-> "unset", n |-> 0, d |-> 1]

\* widthBasedHeight <= maxHeight, the height being a fraction
FitsWidth(widthBasedHeight, maxHeight) ==
    widthBasedHeight.n <= maxHeight * widthBasedHeight.d

\* Mutant: any non-empty viewBox is taken as usable.
PositiveBox_Any(vbWidth, vbHeight) == TRUE

\* vbWidth > 0 && vbHeight > 0
PositiveBox(vbWidth, vbHeight) == GreaterThanZero(vbWidth) /\ GreaterThanZero(vbHeight)

\* The node itself, as a child of a slot would describe it: not a copy, its own
\* width and height attributes and inline style, no sizing style.
TheNode(element) ==
    [cloneOf |-> element, original |-> TRUE,
     widthAttr |-> attrs[element].width, heightAttr |-> attrs[element].height,
     styleAttr |-> attrs[element].style, width |-> Unset, height |-> Unset]

\* element.cloneNode(true): another node with the same attributes
cloneNode(element) == [TheNode(element) EXCEPT !.original = FALSE]

\* Mutant: the copy of an SVG is not taken for an SVG element.
InstanceOfSVGElement_Never(node) == FALSE

\* clone instanceof SVGElement
InstanceOfSVGElement(node) == node.cloneOf \in SVGElements

\* clone.removeAttribute('width'); clone.removeAttribute('height')
RemoveSizeAttributes(clone) == [clone EXCEPT !.widthAttr = Null, !.heightAttr = Null]

\* clone.style.width = ...; clone.style.height = ...
SetSize(clone, width, height) == [clone EXCEPT !.width = width, !.height = height]

cloneSvgWithResponsiveDimensions(svg, viewBoxAttr, windowWidth, windowHeight) ==
    LET clone == RemoveSizeAttributes(cloneNode(svg))
        maxWidth == Max(minWidth, windowWidth - padding)
        maxHeight == Max(minHeight, windowHeight - padding)
        fallback == SetSize(clone, Px(maxWidth, 1), Auto)
    IN  IF ~InstanceOfSVGElement(cloneNode(svg))
        THEN TheNode(svg)
        ELSE IF ~viewBoxAttr.present \/ viewBoxAttr.value = <<>>
        THEN fallback
        ELSE LET parts == split(trim(viewBoxAttr.value))
                 vbWidth == parseFloat(PartOrZero(parts, 2))
                 vbHeight == parseFloat(PartOrZero(parts, 3))
                 widthBasedHeight == Px(maxWidth * vbHeight.v, vbWidth.v)
                 heightBasedWidth == Px(maxHeight * vbWidth.v, vbHeight.v)
             IN  IF PositiveBox(vbWidth, vbHeight)
                 THEN IF FitsWidth(widthBasedHeight, maxHeight)
                      THEN SetSize(clone, Px(maxWidth, 1), widthBasedHeight)
                      ELSE SetSize(clone, heightBasedWidth, Px(maxHeight, 1))
                 ELSE fallback

\* The display copy put in the content slot: a resized copy of a page SVG, a plain
\* deep copy of anything else.
cloneElementForLightbox(element) ==
    IF element \in SVGElements
    THEN cloneSvgWithResponsiveDimensions(element, viewBox, innerWidth, innerHeight)
    ELSE cloneNode(element)

\* Mutant: the slot is not emptied.
ClearChildren_Keeps(children) == children

\* lightboxContent.innerHTML = ''
ClearChildren(children) == <<>>

\* lightboxContent.appendChild(clone)
AppendChild(children, clone) == Append(children, clone)

\* closeButton.blur(): focus leaves the close control when it holds it
Blur(closeButton, focused) == IF focused = closeButton THEN "body" ELSE focused

\* Mutant: focus is not given back to the recorded element.
RestoreFocus_Skips(recorded, focused) == focused

\* lastFocusedElement.focus() when the record is non-empty
RestoreFocus(recorded, focused) == IF recorded # Null THEN recorded ELSE focused

\* Mutant: the overlay is revealed without touching aria-hidden.
openLightbox_KeepsAria(element, lb) ==
    /\ lastFocusedElement' = [lastFocusedElement EXCEPT ![lb] = element]
    /\ content' = [content EXCEPT
                     ![lb] = AppendChild(ClearChildren(content[lb]),
                                         cloneElementForLightbox(element))]
    /\ hidden' = [hidden EXCEPT ![lb] = FALSE]
    /\ UNCHANGED ariaHidden
    /\ bodyOverflowHidden' = TRUE
    /\ activeElement' = CloseOf[lb]

\* Mutant: the element holding focus is recorded, not the activated one.
openLightbox_RecordsFocus(element, lb) ==
    /\ lastFocusedElement' = [lastFocusedElement EXCEPT ![lb] = activeElement]
    /\ content' = [content EXCEPT
                     ![lb] = AppendChild(ClearChildren(content[lb]),
                                         cloneElementForLightbox(element))]
    /\ hidden' = [hidden EXCEPT ![lb] = FALSE]
    /\ ariaHidden' = [ariaHidden EXCEPT ![lb] = "false"]
    /\ bodyOverflowHidden' = TRUE
    /\ activeElement' = CloseOf[lb]

\* Mutant: focus stays where it was.
openLightbox_NoFocus(element, lb) ==
    /\ lastFocusedElement' = [lastFocusedElement EXCEPT ![lb] = element]
    /\ content' = [content EXCEPT
                     ![lb] = AppendChild(ClearChildren(content[lb]),
                                         cloneElementForLightbox(element))]
    /\ hidden' = [hidden EXCEPT ![lb] = FALSE]
    /\ ariaHidden' = [ariaHidden EXCEPT ![lb] = "false"]
    /\ bodyOverflowHidden' = TRUE
    /\ UNCHANGED activeElement

\* Mutant: the body is not scroll-locked.
openLightbox_NoScrollLock(element, lb) ==
    /\ lastFocusedElement' = [lastFocusedElement EXCEPT ![lb] = element]
    /\ content' = [content EXCEPT
                     ![lb] = AppendChild(ClearChildren(content[lb]),
                                         cloneElementForLightbox(element))]
    /\ hidden' = [hidden EXCEPT ![lb] = FALSE]
    /\ ariaHidden' = [ariaHidden EXCEPT ![lb] = "false"]
    /\ UNCHANGED bodyOverflowHidden
    /\ activeElement' = CloseOf[lb]

\* Mutant: the activated element is not recorded.
openLightbox_NoRecord(element, lb) ==
    /\ UNCHANGED lastFocusedElement
    /\ content' = [content EXCEPT
                     ![lb] = AppendChild(ClearChildren(content[lb]),
                                         cloneElementForLightbox(element))]
    /\ hidden' = [hidden EXCEPT ![lb] = FALSE]
    /\ ariaHidden' = [ariaHidden EXCEPT ![lb] = "false"]
    /\ bodyOverflowHidden' = TRUE
    /\ activeElement' = CloseOf[lb]

openLightbox(element, lb) ==
    /\ lastFocusedElement' = [lastFocusedElement EXCEPT ![lb] = element]
    /\ content' = [content EXCEPT
                     ![lb] = AppendChild(ClearChildren(content[lb]),
                                         cloneElementForLightbox(element))]
    /\ hidden' = [hidden EXCEPT ![lb] = FALSE]
    /\ ariaHidden' = [ariaHidden EXCEPT ![lb] = "false"]
    /\ bodyOverflowHidden' = TRUE
    /\ activeElement' = CloseOf[lb]

\* Mutant: close has no guard.
CloseIsNoOp_Never(lb) == FALSE

\* The guard of closeLightbox: lightbox.classList.contains('hidden')
CloseIsNoOp(lb) == hidden[lb]

\* Mutant: close leaves the scroll lock on the body.
closeLightbox_KeepsScrollLock(lb) ==
    IF CloseIsNoOp(lb)
    THEN UNCHANGED <<domVars, lastFocusedElement>>
    ELSE /\ hidden' = [hidden EXCEPT ![lb] = TRUE]
         /\ ariaHidden' = [ariaHidden EXCEPT ![lb] = "true"]
         /\ content' = [content EXCEPT ![lb] = ClearChildren(content[lb])]
         /\ UNCHANGED bodyOverflowHidden
         /\ activeElement' = Blur(CloseOf[lb],
                                  RestoreFocus(lastFocusedElement[lb], activeElement))
         /\ lastFocusedElement' = [lastFocusedElement EXCEPT ![lb] = Null]

closeLightbox(lb) ==
    IF CloseIsNoOp(lb)
    THEN UNCHANGED <<domVars, lastFocusedElement>>
    ELSE /\ hidden' = [hidden EXCEPT ![lb] = TRUE]
         /\ ariaHidden' = [ariaHidden EXCEPT ![lb] = "true"]
         /\ content' = [content EXCEPT ![lb] = ClearChildren(content[lb])]
         /\ bodyOverflowHidden' = FALSE
         /\ activeElement' = Blur(CloseOf[lb],
                                  RestoreFocus(lastFocusedElement[lb], activeElement))
         /\ lastFocusedElement' = [lastFocusedElement EXCEPT ![lb] = Null]

\* History: openLightbox finds the body scroll-locked or not (line 146 adds the
\* class whatever it finds); noted when an overlay goes from hidden to revealed.
NoteScroll ==
    scrollBefore' = [lb \in Overlays |->
                       IF hidden[lb] /\ ~hidden'[lb] THEN bodyOverflowHidden
                       ELSE scrollBefore[lb]]

\* History: the note of an overlay that is hidden is dropped at the next step.
ForgetClosed ==
    scrollBefore' = [lb \in Overlays |-> ~hidden[lb] /\ scrollBefore[lb]]

\* The listener closures initMediaLightbox and bindMediaElement register.
Closure(fn, el, lb) == [fn |-> fn, el |-> el, lb |-> lb]

\* The listeners one successful initMediaLightbox on `lightbox` adds to `node`.
NewListeners(type, node, lightbox, mediaElements) ==
    IF type = "keydown" /\ node = "document"
    THEN <<Closure("documentKeydown", Null, lightbox)>>
    ELSE IF type = "click" /\ node = CloseOf[lightbox]
    THEN <<Closure("handleClose", Null, lightbox)>>
    ELSE IF type = "click" /\ node = lightbox
    THEN <<Closure("backdropClick", Null, lightbox)>>
    ELSE IF node \in mediaElements /\ BindsElement(node)
    THEN IF type = "click"
         THEN <<Closure("targetClick", node, lightbox)>>
         ELSE <<Closure("targetKeydown", node, lightbox)>>
    ELSE <<>>

\* Mutant: the content slot is not checked.
MarkupMissing_IgnoresContent(lightbox, lightboxContent, closeButton) ==
    \/ lightbox = Null
    \/ closeButton \notin HTMLElements

\* !lightbox || !lightboxContent || !(closeButton instanceof HTMLElement)
MarkupMissing(lightbox, lightboxContent, closeButton) ==
    \/ lightbox = Null
    \/ lightboxContent = Null
    \/ closeButton \notin HTMLElements

\* History: the call whose options are o, if one was just made, returned at the
\* markup guard.
ReturnedForMissingMarkup(o) ==
    /\ o.lightboxId # Null
    /\ MarkupMissing(GetElementById(o.lightboxId), GetElementById(o.contentId),
                     QuerySelector(GetElementById(o.lightboxId), o.closeSelector))

\* Mutant: a call that follows a failed one finds the overlay marked.
AlreadyInitialized_OrJustFailed(lightbox) ==
    lightboxInitialized[lightbox] \/ ReturnedForMissingMarkup(lastInit)

\* Mutant: the initialized marker is never consulted.
AlreadyInitialized_Never(lightbox) == FALSE

\* lightbox.dataset.lightboxInitialized === 'true'
AlreadyInitialized(lightbox) == lightboxInitialized[lightbox]

initMediaLightbox(targetSelector, lightboxId, contentId, closeSelector) ==
    LET lightbox == GetElementById(lightboxId)
        lightboxContent == GetElementById(contentId)
        closeButton == QuerySelector(lightbox, closeSelector)
        mediaElements == QuerySelectorAll(targetSelector)
    IN  /\ pending = <<>>
        /\ inits < MaxInits
        /\ inits' = inits + 1
        /\ lastInit' = [targetSelector |-> targetSelector, lightboxId |-> lightboxId,
                        contentId |-> contentId, closeSelector |-> closeSelector,
                        afterFailure |-> ReturnedForMissingMarkup(lastInit)]
        /\ event' = NoEvent /\ defaultPrevented' = FALSE /\ ran' = <<>> /\ calls' = <<>>
        /\ UNCHANGED <<domVars, pageVars, pending>>
        /\ ForgetClosed
        /\ IF MarkupMissing(lightbox, lightboxContent, closeButton)
           THEN UNCHANGED <<widgetVars, bindCalls>>
           ELSE IF AlreadyInitialized(lightbox)
           THEN UNCHANGED <<widgetVars, bindCalls>>
           ELSE /\ bindCalls' = [e \in Elements |->
                                   IF e \in mediaElements THEN bindCalls[e] + 1
                                   ELSE bindCalls[e]]
                /\ lightboxInitialized' = [lightboxInitialized EXCEPT ![lightbox] = TRUE]
                /\ lastFocusedElement' = [lastFocusedElement EXCEPT ![lightbox] = Null]
                /\ lightboxBound' =
                     [e \in Elements |->
                        lightboxBound[e] \/ (e \in mediaElements /\ BindsElement(e))]
                /\ attrs' =
                     [e \in Elements |->
                        IF e \in mediaElements /\ BindsElement(e)
                        THEN ensureInteractiveAttributes(attrs[e])
                        ELSE attrs[e]]
                /\ listeners' =
                     [t \in EventTypes |-> [n \in Nodes |->
                        listeners[t][n] \o NewListeners(t, n, lightbox, mediaElements)]]

\* ------------------------------------------------------------- event dispatch

Keys == {"Enter", " ", "Spacebar", "Escape", "a"}

\* Mutant: Enter does not activate.
IsActivationKey_NoEnter(key) == key \in {" ", "Spacebar"}

\* Mutant: every key activates.
IsActivationKey_AnyKey(key) == TRUE

\* event.key === 'Enter' || event.key === ' ' || event.key === 'Spacebar'
IsActivationKey(key) == key \in {"Enter", " ", "Spacebar"}

\* event.key === 'Escape'
IsDismissKey(key) == key = "Escape"

\* Mutant: the backdrop listener does not look at the event's target.
IsBackdropClick_Any(target, lightbox) == TRUE

\* event.target === lightbox
IsBackdropClick(target, lightbox) == target = lightbox

OverlayOfNode(node) ==
    CHOOSE lb \in Overlays : node \in {lb, CloseOf[lb], ContentOf[lb], CloneOf[lb]}

\* The propagation path of an event, from its target up to the document.
Path(target) ==
    IF target \in CloneNodes
    THEN <<target, ContentOf[OverlayOfNode(target)], OverlayOfNode(target), "body", "document">>
    ELSE IF target \in CloseButtons \cup ContentSlots
    THEN <<target, OverlayOfNode(target), "body", "document">>
    ELSE IF target = "body"
    THEN <<"body", "document">>
    ELSE <<target, "body", "document">>

RECURSIVE ListenersAlong(_, _)
\* The listeners of `type` on the nodes of `path`, each tagged with its node.
ListenersAlong(path, type) ==
    IF path = <<>> THEN <<>>
    ELSE [i \in 1..Len(listeners[type][Head(path)]) |->
            [node |-> Head(path),
             fn |-> listeners[type][Head(path)][i].fn,
             el |-> listeners[type][Head(path)][i].el,
             lb |-> listeners[type][Head(path)][i].lb]]
         \o ListenersAlong(Tail(path), type)

\* event.stopPropagation(): listeners on the other nodes of the path are dropped.
StopPropagation(rest, node) == SelectSeq(rest, LAMBDA l : l.node = node)

Dispatch(type, target, key) ==
    /\ pending = <<>>
    /\ event' = [type |-> type, target |-> target, key |-> key]
    /\ defaultPrevented' = FALSE
    /\ pending' = ListenersAlong(Path(target), type)
    /\ ran' = <<>>
    /\ calls' = <<>>
    /\ lastInit' = NoInit
    /\ UNCHANGED <<domVars, widgetVars, pageVars, bindCalls, inits>>
    /\ ForgetClosed

\* What a click can land on: a page element, an overlay's backdrop, close control
\* or content slot, or the clone displayed in a slot.
ClickTargets ==
    Elements \cup Overlays \cup CloseButtons \cup ContentSlots
        \cup {CloneOf[lb] : lb \in {o \in Overlays : content[o] # <<>>}}

Click(target) ==
    /\ target \in ClickTargets
    /\ Dispatch("click", target, "")

\* A key press goes to the element that holds focus.
KeyDown(key) == Dispatch("keydown", activeElement, key)

\* What the user can move focus to: a bound target (it has a tabindex), the close
\* control of a revealed overlay, or nothing (the body).
Focusable ==
    {e \in Elements : lightboxBound[e]} \cup {CloseOf[lb] : lb \in {o \in Overlays : ~hidden[o]}}
        \cup {"body"}

UserFocus(node) ==
    /\ pending = <<>>
    /\ node \in Focusable
    /\ node # activeElement
    /\ activeElement' = node
    /\ lastInit' = NoInit
    /\ event' = NoEvent /\ defaultPrevented' = FALSE /\ ran' = <<>> /\ calls' = <<>>
    /\ UNCHANGED <<hidden, ariaHidden, content, bodyOverflowHidden, widgetVars,
                   pageVars, pending, bindCalls, inits>>
    /\ ForgetClosed

\* ------------------------------------------------------------- listeners

\* The record of a call: the function, its overlay and element, and what the call
\* found: whether the overlay was revealed and which element its slot displayed.
Call(fn, lb, el) ==
    [fn |-> fn, lb |-> lb, el |-> el, open |-> ~hidden[lb],
     shown |-> IF content[lb] = <<>> THEN Null ELSE content[lb][1].cloneOf]

\* The bookkeeping of one listener step: `rest` is what remains to run.
Ran(rest) ==
    /\ pending' = rest
    /\ ran' = Append(ran, Head(pending))
    /\ UNCHANGED <<event, lightboxInitialized, lightboxBound, attrs, listeners,
                   pageVars, lastInit, bindCalls, inits>>

\* element.addEventListener('click', ...) of bindMediaElement
TargetClickListener ==
    /\ pending # <<>>
    /\ Head(pending).fn = "targetClick"
    /\ Ran(StopPropagation(Tail(pending), Head(pending).node))
    /\ openLightbox(Head(pending).el, Head(pending).lb)
    /\ calls' = Append(calls, Call("openLightbox", Head(pending).lb, Head(pending).el))
    /\ UNCHANGED defaultPrevented
    /\ NoteScroll

\* element.addEventListener('keydown', ...) of bindMediaElement
TargetKeydownListener ==
    /\ pending # <<>>
    /\ Head(pending).fn = "targetKeydown"
    /\ Ran(Tail(pending))
    /\ IF IsActivationKey(event.key)
       THEN /\ defaultPrevented' = TRUE
            /\ openLightbox(Head(pending).el, Head(pending).lb)
            /\ calls' = Append(calls, Call("openLightbox", Head(pending).lb, Head(pending).el))
       ELSE UNCHANGED <<defaultPrevented, domVars, lastFocusedElement, calls>>
    /\ NoteScroll

\* document.addEventListener('keydown', ...) of initMediaLightbox
DocumentKeydownListener ==
    /\ pending # <<>>
    /\ Head(pending).fn = "documentKeydown"
    /\ Ran(Tail(pending))
    /\ UNCHANGED defaultPrevented
    /\ IF IsDismissKey(event.key)
       THEN /\ closeLightbox(Head(pending).lb)
            /\ calls' = Append(calls, Call("closeLightbox", Head(pending).lb, Null))
       ELSE UNCHANGED <<domVars, lastFocusedElement, calls>>
    /\ NoteScroll

\* closeButton.addEventListener('click', handleClose)
handleClose ==
    /\ pending # <<>>
    /\ Head(pending).fn = "handleClose"
    /\ Ran(Tail(pending))
    /\ UNCHANGED defaultPrevented
    /\ closeLightbox(Head(pending).lb)
    /\ calls' = Append(calls, Call("closeLightbox", Head(pending).lb, Null))
    /\ NoteScroll

\* lightbox.addEventListener('click', ...) of initMediaLightbox
BackdropClickListener ==
    /\ pending # <<>>
    /\ Head(pending).fn = "backdropClick"
    /\ Ran(Tail(pending))
    /\ UNCHANGED defaultPrevented
    /\ IF IsBackdropClick(event.target, Head(pending).lb)
       THEN /\ closeLightbox(Head(pending).lb)
            /\ calls' = Append(calls, Call("closeLightbox", Head(pending).lb, Null))
       ELSE UNCHANGED <<domVars, lastFocusedElement, calls>>
    /\ NoteScroll

\* ------------------------------------------------------------- specification

\* The option sets a page passes: the content id names the slot of the overlay the
\* lightbox id names (the host markup contract), or an element that is not there.
InitOptions ==
    {o \in [targetSelector : TargetSelectors, lightboxId : LightboxIds,
            contentId : ContentIds, closeSelector : CloseSelectors] :
        o.lightboxId \in Overlays /\ o.contentId \in ContentSlots
            => o.contentId = ContentOf[o.lightboxId]}

InitCall ==
    \E o \in InitOptions :
        initMediaLightbox(o.targetSelector, o.lightboxId, o.contentId, o.closeSelector)

ClickEvent == \E target \in Nodes : Click(target)

KeyDownEvent == \E key \in Keys : KeyDown(key)

FocusMove == \E node \in Nodes : UserFocus(node)

Next ==
    \/ InitCall
    \/ ClickEvent
    \/ KeyDownEvent
    \/ FocusMove
    \/ TargetClickListener
    \/ TargetKeydownListener
    \/ DocumentKeydownListener
    \/ handleClose
    \/ BackdropClickListener

Spec == Init /\ [][Next]_vars

\* ------------------------------------------------------------- sizing runs

\* Window sizes: below, at and above the floors of the two maxima.
ViewportWidths == {300, 416, 1000}

ViewportHeights == {300, 336, 800}

\* viewBox values a page SVG may carry (absent, "", " ", "0 0 400 200", ...).
ViewBoxes ==
    {NoAttribute,
     Attribute(<<>>),
     Attribute(<<Space>>),
     Attribute(Spaced(<<Digits(0)>>, <<Digits(0)>>, <<Digits(400)>>, <<Digits(200)>>)),
     Attribute(Spaced(<<Digits(0)>>, <<Digits(0)>>, <<Digits(200)>>, <<Digits(400)>>)),
     Attribute(Spaced(<<Digits(0)>>, <<Digits(0)>>, <<Digits(3)>>, <<Digits(7)>>)),
     Attribute(<<Space>> \o Spaced(<<Digits(0)>>, <<Digits(0)>>, <<Digits(400)>>, <<Digits(200)>>)
                 \o <<Space>>),
     Attribute(<<Piece(<<Digits(0)>>), Space, Piece(<<Digits(0)>>), Space, Piece(<<Digits(400)>>)>>),
     Attribute(Spaced(<<Digits(0)>>, <<Digits(0)>>, <<Digits(0)>>, <<Digits(200)>>)),
     Attribute(Spaced(<<Digits(0)>>, <<Digits(0)>>, <<Digits(400)>>, <<Digits(-200)>>)),
     Attribute(Spaced(<<Digits(0)>>, <<Digits(0)>>, <<Letters>>, <<Digits(200)>>)),
     Attribute(Spaced(<<Digits(0)>>, <<Digits(0)>>, <<Digits(400), Letters>>,
                      <<Digits(200), Letters>>)),
     Attribute(Spaced(<<Digits(0), Comma>>, <<Digits(0), Comma>>, <<Digits(400), Comma>>,
                      <<Digits(200)>>)),
     Attribute(<<Piece(<<Digits(0), Comma, Digits(0), Comma, Digits(400), Comma,
                         Digits(200)>>)>>)}

\* The same markup, with any of the viewBox values on the page's SVG.
SizeInit ==
    /\ Markup
    /\ viewBox \in ViewBoxes
    /\ innerWidth = 1000
    /\ innerHeight = 800

\* The user resizes the window (between events).
Resize(width, height) ==
    /\ pending = <<>>
    /\ <<width, height>> # <<innerWidth, innerHeight>>
    /\ innerWidth' = width
    /\ innerHeight' = height
    /\ lastInit' = NoInit
    /\ event' = NoEvent /\ defaultPrevented' = FALSE /\ ran' = <<>> /\ calls' = <<>>
    /\ UNCHANGED <<domVars, widgetVars, viewBox, pending, bindCalls, inits>>
    /\ ForgetClosed

SizeInitCall ==
    \E targetSelector \in {"svg", "img, svg, math"} :
        initMediaLightbox(targetSelector, "lb1", "content1", DEFAULT_CLOSE_SELECTOR)

WindowResize == \E width \in ViewportWidths, height \in ViewportHeights : Resize(width, height)

SizeClick == \E target \in {"svg1", "img1", "close1"} : Click(target)

SizeNext ==
    \/ SizeInitCall
    \/ WindowResize
    \/ SizeClick
    \/ TargetClickListener
    \/ handleClose
    \/ BackdropClickListener

SizeSpec == SizeInit /\ [][SizeNext]_vars

\* ------------------------------------------------------------- binding runs

\* Selectors that also match a paragraph and a MathML element.
BindSelectors == {"p", "p, math", "img, svg, math"}

BindInitCall ==
    \E targetSelector \in BindSelectors :
        initMediaLightbox(targetSelector, "lb1", "content1", DEFAULT_CLOSE_SELECTOR)

BindClick == \E target \in {"p1", "math1", "img1", "close1"} : Click(target)

BindNext ==
    \/ BindInitCall
    \/ BindClick
    \/ KeyDownEvent
    \/ FocusMove
    \/ TargetClickListener
    \/ TargetKeydownListener
    \/ DocumentKeydownListener
    \/ handleClose
    \/ BackdropClickListener

BindSpec == Init /\ [][BindNext]_vars

\* ------------------------------------------------------------- properties

Last(seq) == seq[Len(seq)]

\* The step runs one registered listener.
ListenerStep == Len(ran') = Len(ran) + 1

\* The step calls openLightbox on overlay lb.
OpenCalled(lb) ==
    /\ Len(calls') = Len(calls) + 1
    /\ Last(calls').fn = "openLightbox"
    /\ Last(calls').lb = lb

\* The step calls closeLightbox on overlay lb.
CloseCalled(lb) ==
    /\ Len(calls') = Len(calls) + 1
    /\ Last(calls').fn = "closeLightbox"
    /\ Last(calls').lb = lb

\* The dispatch of the current event has run all its listeners.
Dispatched == event.type # "none" /\ pending = <<>>

\* The current event is an activation (click, Enter or Space) of element e.
Activates(e) ==
    /\ event.target = e
    /\ \/ event.type = "click"
       \/ event.type = "keydown" /\ event.key \in {"Enter", " ", "Spacebar"}

\* C1: once an overlay is initialized (its markup starting hidden), its session
\* record lastFocusedElement is non-empty exactly when the overlay is open, that
\* is, does not carry the hidden class.
C1_RecordIffOpen ==
    \A lb \in Overlays :
        lightboxInitialized[lb] => ((lastFocusedElement[lb] # Null) <=> ~hidden[lb])

\* An overlay is open with its record set while the other one has just been
\* dismissed and has its record empty.
C1_Witness ==
    /\ ~hidden["lb1"] /\ lastFocusedElement["lb1"] \in Elements
    /\ calls # <<>> /\ Last(calls).fn = "closeLightbox" /\ Last(calls).lb = "lb2"
    /\ Last(calls).open
    /\ hidden["lb2"] /\ lastFocusedElement["lb2"] = Null

\* C2: every target element is bound at most once.  However many bindMediaElement
\* calls reach an element (repeated initMediaLightbox calls, on the same overlay or
\* on different ones, with overlapping selectors), it carries at most one click and
\* one keydown listener, exactly one of each once a call has reached an HTML or SVG
\* element, and one activation of it makes exactly one openLightbox call.
C2_BoundAtMostOnce ==
    /\ \A e \in Elements : \A t \in EventTypes :
          /\ Len(listeners[t][e]) <= 1
          /\ (bindCalls[e] >= 1 /\ e \in HTMLElements \cup SVGElements)
                => Len(listeners[t][e]) = 1
    /\ \A e \in Elements :
          (Dispatched /\ Activates(e) /\ bindCalls[e] >= 1
                /\ e \in HTMLElements \cup SVGElements)
             => /\ Len(calls) = 1
                /\ calls[1].fn = "openLightbox"
                /\ calls[1].el = e

\* Two bindMediaElement calls reached the image, and a click on it has been
\* dispatched.
C2_Witness ==
    /\ bindCalls["img1"] = 2
    /\ lightboxInitialized["lb1"] /\ lightboxInitialized["lb2"]
    /\ Dispatched /\ event.type = "click" /\ event.target = "img1"
    /\ Len(calls) = 1

\* C3: the content slot holds 0 or 1 children.  After an openLightbox call the slot
\* holds exactly one child, a clone of the element just activated, whatever it held
\* before; after a closeLightbox call the slot is empty.
C3_SlotHoldsAtMostOne ==
    /\ \A lb \in Overlays : Len(content[lb]) <= 1
    /\ calls # <<>> =>
          /\ Last(calls).fn = "openLightbox" =>
                /\ Len(content[Last(calls).lb]) = 1
                /\ content[Last(calls).lb][1].cloneOf = Last(calls).el
          /\ Last(calls).fn = "closeLightbox" => content[Last(calls).lb] = <<>>

\* An open found the clone of another element in the slot and replaced it.
C3_Witness ==
    /\ calls # <<>> /\ Last(calls).fn = "openLightbox"
    /\ Last(calls).shown \in Elements /\ Last(calls).shown # Last(calls).el
    /\ Len(content[Last(calls).lb]) = 1

\* The listener that just ran belongs to a bound target, the event's own target,
\* and the event is a click or an Enter/Space keydown on it.
C4_Activation(lb) ==
    /\ ListenerStep
    /\ Last(ran').lb = lb
    /\ Last(ran').node \in Elements
    /\ lightboxBound[Last(ran').node]
    /\ Activates(Last(ran').node)

\* The event is an Escape keydown, a click on the overlay's close control or a
\* click whose target is the overlay itself.
C4_Dismissal(lb) ==
    /\ ListenerStep
    /\ \/ event.type = "keydown" /\ event.key = "Escape"
       \/ event.type = "click" /\ event.target = CloseOf[lb]
       \/ event.type = "click" /\ event.target = lb

\* C4: the widget is a two-state machine starting Closed.  An overlay goes from
\* Closed to Open only when a listener of a bound target runs for a click or an
\* Enter/Space keydown on that target, and from Open to Closed only for an Escape
\* keydown, a click on its close control or a click on the overlay itself; no
\* other step (another key, a click inside the overlay, an initMediaLightbox
\* call, a focus move) changes it.
C4_TwoStateMachine ==
    /\ \A lb \in Overlays : hidden[lb]
    /\ [][\A lb \in Overlays :
            /\ (hidden[lb] /\ ~hidden'[lb]) => C4_Activation(lb)
            /\ (~hidden[lb] /\ hidden'[lb]) => C4_Dismissal(lb)]_vars

\* An open overlay has been dismissed by a click on its backdrop.
C4_Witness ==
    /\ Dispatched /\ event.type = "click" /\ event.target = "lb1"
    /\ Len(calls) = 1 /\ calls[1].open
    /\ hidden["lb1"]

\* C5: a closeLightbox call on an overlay that is already hidden changes nothing:
\* overlay classes and aria-hidden, content slots, the body's scroll-lock class
\* (whatever its value), the focused element and lastFocusedElement stay as they
\* were.
C5_CloseWhenClosedIsNoOp ==
    [][\A lb \in Overlays :
         (CloseCalled(lb) /\ hidden[lb])
            => UNCHANGED <<hidden, ariaHidden, content, bodyOverflowHidden,
                           activeElement, lastFocusedElement>>]_vars

\* Close was called on a hidden overlay while the body carried the scroll lock
\* and the other overlay's close control held focus.
C5_Witness ==
    /\ calls # <<>> /\ Last(calls).fn = "closeLightbox" /\ ~Last(calls).open
    /\ hidden[Last(calls).lb]
    /\ bodyOverflowHidden
    /\ activeElement \in CloseButtons

\* The step is a call of initMediaLightbox.
InitStep == inits' = inits + 1

\* The number of closeLightbox calls the dispatch made on overlay lb.
CloseCalls(lb) ==
    Cardinality({i \in DOMAIN calls : calls[i].fn = "closeLightbox" /\ calls[i].lb = lb})

\* C6: an initMediaLightbox call on an overlay that already carries the
\* initialized marker is a no-op, whether the overlay is open or closed: no
\* listener is added on the document, the close control, the overlay or any
\* target, no element gets the bound marker (not even a matching element that was
\* unbound), lastFocusedElement and the page state are untouched; so the overlay
\* keeps one listener of each kind and one Escape makes one closeLightbox call on it.
C6_SecondInitIsNoOp ==
    /\ [][(InitStep /\ lastInit'.lightboxId \in Overlays
              /\ lightboxInitialized[lastInit'.lightboxId])
            => UNCHANGED <<hidden, ariaHidden, content, bodyOverflowHidden,
                           activeElement, lightboxInitialized, lastFocusedElement,
                           lightboxBound, attrs, listeners>>]_vars
    /\ [](\A lb \in Overlays :
            /\ lightboxInitialized[lb] =>
                  /\ Len(SelectSeq(listeners["keydown"]["document"],
                                   LAMBDA l : l.lb = lb)) = 1
                  /\ Len(listeners["click"][CloseOf[lb]]) = 1
                  /\ Len(listeners["click"][lb]) = 1
            /\ (lightboxInitialized[lb] /\ Dispatched /\ event.type = "keydown"
                    /\ event.key = "Escape")
                  => CloseCalls(lb) = 1)

\* initMediaLightbox has just been called again on an overlay that is open, with
\* a selector matching an element that is still unbound.
C6_Witness ==
    /\ lastInit.lightboxId = "lb1"
    /\ lastInit.targetSelector = "img, svg, math"
    /\ lastInit.contentId = ContentOf["lb1"]
    /\ lastInit.closeSelector = DEFAULT_CLOSE_SELECTOR
    /\ ~hidden["lb1"] /\ lastFocusedElement["lb1"] = "img1"
    /\ ~lightboxBound["svg1"]

\* The options name an overlay, a content slot or a close control the page does
\* not have as an HTML element.
C7_Unresolved(o) ==
    \/ GetElementById(o.lightboxId) = Null
    \/ GetElementById(o.contentId) = Null
    \/ QuerySelector(GetElementById(o.lightboxId), o.closeSelector) \notin HTMLElements

\* C7: an initMediaLightbox call whose overlay, content slot or HTML close control
\* cannot be resolved binds nothing: no listener is registered anywhere, no
\* element gets the bound marker, the overlay is not marked initialized and the
\* page state is untouched.
C7_MissingMarkupBindsNothing ==
    [][(InitStep /\ C7_Unresolved(lastInit'))
         => UNCHANGED <<hidden, ariaHidden, content, bodyOverflowHidden,
                        activeElement, lightboxInitialized, lastFocusedElement,
                        lightboxBound, attrs, listeners>>]_vars

\* initMediaLightbox has just been called for an existing overlay with a content
\* id the page does not have; nothing is initialized or bound.
C7_Witness ==
    /\ lastInit.lightboxId = "lb1"
    /\ lastInit.contentId = "no-such-id"
    /\ lastInit.closeSelector = DEFAULT_CLOSE_SELECTOR
    /\ lastInit.targetSelector = "img"
    /\ ~lightboxInitialized["lb1"]
    /\ ~lightboxBound["img1"]
    /\ listeners["click"]["img1"] = <<>>

\* C8: open/close focus cycle.  An openLightbox call for target T records T as
\* lastFocusedElement; while the overlay is open the record is the target it
\* displays (the last one activated); the next effective close moves focus to
\* exactly the recorded target and empties the record.
C8_FocusCycle ==
    /\ [](\A lb \in Overlays :
            ~hidden[lb] =>
               /\ content[lb] # <<>>
               /\ lastFocusedElement[lb] = content[lb][1].cloneOf)
    /\ [][\A lb \in Overlays :
            /\ OpenCalled(lb) => lastFocusedElement'[lb] = Last(calls').el
            /\ (CloseCalled(lb) /\ ~hidden[lb]) =>
                  /\ lastFocusedElement[lb] \in Elements
                  /\ activeElement' = lastFocusedElement[lb]
                  /\ lastFocusedElement'[lb] = Null]_vars

\* An overlay that displayed the SVG has been closed by Escape: focus is back on
\* the SVG and the record is empty.
C8_Witness ==
    /\ Dispatched /\ event.type = "keydown" /\ event.key = "Escape"
    /\ \E i \in DOMAIN calls :
          /\ calls[i].fn = "closeLightbox" /\ calls[i].open /\ calls[i].shown = "svg1"
          /\ lastFocusedElement[calls[i].lb] = Null
    /\ activeElement = "svg1"

\* C9: opening does not stack.  An openLightbox call on an overlay that is
\* already open leaves it open, showing only the clone of the newly activated
\* target, with focus on the close control; and any effective close leaves the
\* overlay fully Closed: hidden, aria-hidden true, slot empty, scroll lock
\* removed, lastFocusedElement empty.
C9_OpenDoesNotStack ==
    [][\A lb \in Overlays :
         /\ (OpenCalled(lb) /\ ~hidden[lb]) =>
               /\ ~hidden'[lb]
               /\ ariaHidden'[lb] = "false"
               /\ Len(content'[lb]) = 1
               /\ content'[lb][1].cloneOf = Last(calls').el
               /\ activeElement' = CloseOf[lb]
         /\ (CloseCalled(lb) /\ ~hidden[lb]) =>
               /\ hidden'[lb]
               /\ ariaHidden'[lb] = "true"
               /\ content'[lb] = <<>>
               /\ ~bodyOverflowHidden'
               /\ lastFocusedElement'[lb] = Null]_vars

\* The overlay displaying the image has been re-opened on the SVG by a keydown.
C9_Witness ==
    /\ Dispatched /\ event.type = "keydown" /\ event.target = "svg1"
    /\ Len(calls) = 1 /\ calls[1].fn = "openLightbox"
    /\ calls[1].open /\ calls[1].shown = "img1" /\ calls[1].el = "svg1"
    /\ ~hidden[calls[1].lb]
    /\ activeElement = CloseOf[calls[1].lb]

C11_AffordancesNotClobbered ==
    \A e \in Elements :
        /\ Authored[e].role # Null => attrs[e].role = Authored[e].role
        /\ Authored[e].tabindex # Null => attrs[e].tabindex = Authored[e].tabindex
        /\ Authored[e].ariaLabel # Null => attrs[e].ariaLabel = Authored[e].ariaLabel
        /\ lightboxBound[e] =>
              /\ Authored[e].role = Null => attrs[e].role = "button"
              /\ Authored[e].tabindex = Null => attrs[e].tabindex = "0"
              /\ Authored[e].ariaLabel = Null
                    => attrs[e].ariaLabel = "Agrandir la visualisation"
        /\ ~lightboxBound[e] => attrs[e] = Authored[e]

\* Both bindable elements are bound, the image keeps role "img" and got the
\* default tabindex, the SVG got role "button", and an overlay has been opened
\* and closed since.
C11_Witness ==
    /\ lightboxBound["img1"] /\ lightboxBound["svg1"]
    /\ attrs["img1"].role = "img" /\ attrs["img1"].tabindex = "0"
    /\ attrs["svg1"].role = "button" /\ attrs["svg1"].tabindex = "-1"
    /\ calls # <<>> /\ Last(calls).fn = "closeLightbox" /\ Last(calls).open

\* C12: the overlay's aria-hidden attribute is in sync with its visibility: an
\* overlay carries the hidden class exactly when its aria-hidden is "true".
C12_AriaHiddenInSync ==
    \A lb \in Overlays : hidden[lb] <=> (ariaHidden[lb] = "true")

\* One overlay is revealed with aria-hidden "false" while the other, dismissed a
\* moment ago, is hidden with aria-hidden "true".
C12_Witness ==
    /\ ~hidden["lb2"] /\ ariaHidden["lb2"] = "false"
    /\ hidden["lb1"] /\ ariaHidden["lb1"] = "true"
    /\ calls # <<>> /\ Last(calls).fn = "closeLightbox" /\ Last(calls).lb = "lb1"
    /\ Last(calls).open

\* ------------------------------------------------------------- C13, C14

\* The characters of an attribute value, a whitespace run being one character.
RECURSIVE Characters(_)
Characters(s) ==
    IF s = <<>> THEN <<>>
    ELSE (IF Head(s).ws THEN <<[k |-> "ws", v |-> 0]>> ELSE Head(s).atoms)
            \o Characters(Tail(s))

\* SVG separates the numbers of a viewBox by whitespace, a comma, or both.
IsSeparator(a) == a.k \in {"ws", "comma"}

\* The components of a viewBox: the runs between separators.
RECURSIVE Components(_)
Components(chars) ==
    IF chars = <<>> THEN <<>>
    ELSE IF IsSeparator(Head(chars)) THEN Components(Tail(chars))
    ELSE LET n == CHOOSE i \in 1..Len(chars) :
                    /\ \A j \in 1..i : ~IsSeparator(chars[j])
                    /\ (i = Len(chars) \/ IsSeparator(chars[i + 1]))
         IN  <<SubSeq(chars, 1, n)>> \o Components(SubSeq(chars, n + 1, Len(chars)))

ViewBoxComponents == Components(Characters(viewBox.value))

IsNumber(component) == Len(component) = 1 /\ component[1].k = "num"

\* The viewBox declares a positive width and height: four numbers, the last two
\* above zero.
DeclaresPositiveBox ==
    /\ viewBox.present
    /\ Len(ViewBoxComponents) = 4
    /\ \A i \in 1..4 : IsNumber(ViewBoxComponents[i])
    /\ ViewBoxComponents[3][1].v > 0
    /\ ViewBoxComponents[4][1].v > 0

\* The numbers are separated by whitespace alone.
WhitespaceSeparated == \A i \in 1..Len(viewBox.value) : \A a \in 1..Len(viewBox.value[i].atoms) :
                           viewBox.value[i].atoms[a].k # "comma"

\* The last call opened the overlay on the page's SVG (no resize since).
SvgOpened ==
    /\ calls # <<>>
    /\ Last(calls).fn = "openLightbox"
    /\ Last(calls).el = "svg1"

Displayed == content[Last(calls).lb][1]

SameLength(a, b) == a.unit = b.unit /\ a.n * b.d = b.n * a.d

\* The size the claim gives for a vbW by vbH box in a vw by vh window.
FittedSize(vbW, vbH, vw, vh) ==
    LET maxWidth == IF vw - 96 > 320 THEN vw - 96 ELSE 320
        maxHeight == IF vh - 96 > 240 THEN vh - 96 ELSE 240
    IN  IF maxWidth * vbH <= maxHeight * vbW
        THEN [width |-> Px(maxWidth, 1), height |-> Px(maxWidth * vbH, vbW)]
        ELSE [width |-> Px(maxHeight * vbW, vbH), height |-> Px(maxHeight, 1)]

HasFittedSize ==
    LET size == FittedSize(ViewBoxComponents[3][1].v, ViewBoxComponents[4][1].v,
                           innerWidth, innerHeight)
    IN  /\ SameLength(Displayed.width, size.width)
        /\ SameLength(Displayed.height, size.height)
        \* the aspect ratio of the box is kept: width * vbH = height * vbW
        /\ Displayed.width.n * Displayed.height.d * ViewBoxComponents[4][1].v
             = Displayed.height.n * Displayed.width.d * ViewBoxComponents[3][1].v

\* C13: whenever the overlay has just opened on an SVG whose viewBox declares a
\* positive width vbW and height vbH, the clone is maxWidth wide and
\* maxWidth*vbH/vbW high when that height is at most maxHeight, and
\* maxHeight*vbW/vbH wide and maxHeight high otherwise (maxWidth = max(320, vw-96),
\* maxHeight = max(240, vh-96)); a 400 by 200 box gives 904x452 in a 1000x800
\* window and 480x240 in a 1000x300 window.
C13_ResponsiveSizing ==
    (SvgOpened /\ DeclaresPositiveBox)
        => /\ HasFittedSize
           /\ (ViewBoxComponents[3][1].v = 400 /\ ViewBoxComponents[4][1].v = 200
                 /\ innerWidth = 1000 /\ innerHeight = 800)
                => (Displayed.width = Px(904, 1) /\ SameLength(Displayed.height, Px(452, 1)))
           /\ (ViewBoxComponents[3][1].v = 400 /\ ViewBoxComponents[4][1].v = 200
                 /\ innerWidth = 1000 /\ innerHeight = 300)
                => (SameLength(Displayed.width, Px(480, 1)) /\ Displayed.height = Px(240, 1))

\* The same statement for the viewBoxes whose numbers are separated by whitespace
\* alone.
C13_WhitespaceSeparatedSizing == WhitespaceSeparated => C13_ResponsiveSizing

\* A viewBox "0,0,400,200" in a 1000 by 300 window: the clone is 904px wide with
\* automatic height.
C13_Witness ==
    /\ SvgOpened
    /\ DeclaresPositiveBox
    /\ ~WhitespaceSeparated
    /\ Len(viewBox.value) = 1
    /\ innerWidth = 1000 /\ innerHeight = 300
    /\ Displayed.width = Px(904, 1)
    /\ Displayed.height = Auto

\* The component starts with a number above zero.
StartsPositive(component) == component[1].k = "num" /\ component[1].v > 0

\* No usable viewBox: absent or empty, fewer than four components, or a width or
\* height that is not a number above zero.
NoUsableViewBox ==
    \/ ~viewBox.present
    \/ viewBox.value = <<>>
    \/ Len(ViewBoxComponents) < 4
    \/ ~StartsPositive(ViewBoxComponents[3])
    \/ ~StartsPositive(ViewBoxComponents[4])

\* C14: whenever the overlay has just opened on an SVG with no usable viewBox, the
\* clone is max(320, innerWidth - 96) px wide with automatic height, whatever the
\* window's height.
C14_FallbackSize ==
    (SvgOpened /\ NoUsableViewBox)
        => /\ Displayed.width = Px(IF innerWidth - 96 > 320 THEN innerWidth - 96 ELSE 320, 1)
           /\ Displayed.height = Auto

\* A three-number viewBox in a 300 by 300 window: 320px wide, automatic height.
C14_Witness ==
    /\ SvgOpened
    /\ viewBox.present
    /\ Len(ViewBoxComponents) = 3
    /\ innerWidth = 300 /\ innerHeight = 300
    /\ Displayed.width = Px(320, 1)
    /\ Displayed.height = Auto

\* ------------------------------------------------------------- C15

\* The last call was a closeLightbox that found its overlay revealed.
EffectiveClose(lb) ==
    /\ calls # <<>>
    /\ Last(calls).fn = "closeLightbox"
    /\ Last(calls).lb = lb
    /\ Last(calls).open

\* C15: when an overlay that was opened from Closed has just been closed, the body
\* carries the scroll-lock class exactly if it carried it before that open, also
\* when it already carried it then.
C15_CloseRestoresScroll ==
    \A lb \in Overlays : EffectiveClose(lb) => (bodyOverflowHidden = scrollBefore[lb])

\* The same statement for the opens that found the body not scroll-locked.
C15_UnlockedBeforeOpen ==
    \A lb \in Overlays :
        (EffectiveClose(lb) /\ ~scrollBefore[lb]) => ~bodyOverflowHidden

\* The first overlay opened while the second held the scroll lock; closing the
\* first removed the lock, the second is still revealed.
C15_Witness ==
    /\ EffectiveClose("lb1")
    /\ scrollBefore["lb1"]
    /\ ~hidden["lb2"]
    /\ ~bodyOverflowHidden

\* ------------------------------------------------------------- C16

Revealed == {lb \in Overlays : ~hidden[lb]}

\* C16: whatever initMediaLightbox calls, activations and dismissals have happened,
\* at most one overlay is revealed.
C16_AtMostOneOpen == Cardinality(Revealed) <= 1

\* With a single overlay initialized, at most one is revealed.
C16_SingleInitialization ==
    Cardinality({lb \in Overlays : lightboxInitialized[lb]}) <= 1 => C16_AtMostOneOpen

\* While one overlay was revealed, focus moved to a target of the other and Enter
\* or Space opened it: both are revealed.
C16_Witness ==
    /\ Revealed = Overlays
    /\ event.type = "keydown"
    /\ calls # <<>>
    /\ Last(calls).fn = "openLightbox"
    /\ ~Last(calls).open

\* ------------------------------------------------------------- C17

\* C17 as stated: on every open, by click or by key, from Closed or from Open, the
\* value stored in lastFocusedElement is the element that holds keyboard focus
\* when the activation happens.
C17_RecordsFocusedElement ==
    [][\A lb \in Overlays : OpenCalled(lb) => lastFocusedElement'[lb] = activeElement]_vars

\* C17: on every open, by click or by key, from Closed or from Open, the value
\* stored in lastFocusedElement is the activated target, the element whose
\* listener ran; it is the element holding focus when the activation is a key
\* press made on that target.
C17_RecordsActivatedTarget ==
    [][\A lb \in Overlays :
        OpenCalled(lb)
            => /\ lastFocusedElement'[lb] = Last(calls').el
               /\ Last(calls').el = Head(pending).node
               /\ (event.type = "keydown" /\ event.target = Last(calls').el)
                    => lastFocusedElement'[lb] = activeElement]_vars

\* A click on a target of an overlay that was already revealed (focus was not on
\* the target): the target is what is recorded.
C17_Witness ==
    /\ calls # <<>>
    /\ Last(calls).fn = "openLightbox"
    /\ Last(calls).open
    /\ event.type = "click"
    /\ lastFocusedElement[Last(calls).lb] = event.target

\* ------------------------------------------------------------- C18

\* The last call of the dispatch opened overlay lb.
JustOpened(lb) ==
    /\ calls # <<>>
    /\ Last(calls).fn = "openLightbox"
    /\ Last(calls).lb = lb

\* C18: right after an activation of a bound target, whether its overlay was hidden
\* or revealed, the overlay is revealed with aria-hidden "false", the body carries
\* the scroll-lock class and focus is on the overlay's close control.
C18_OpenPostcondition ==
    \A lb \in Overlays :
        JustOpened(lb)
            => /\ ~hidden[lb]
               /\ ariaHidden[lb] = "false"
               /\ bodyOverflowHidden
               /\ activeElement = CloseOf[lb]

\* Both cases: an activation by key from Closed while the other overlay is
\* revealed, and an activation by click from Open.
C18_WitnessFromClosed ==
    /\ JustOpened("lb1")
    /\ ~Last(calls).open
    /\ event.type = "keydown"
    /\ activeElement = "close1"
    /\ bodyOverflowHidden

C18_Witness ==
    /\ JustOpened("lb2")
    /\ Last(calls).open
    /\ event.type = "click"
    /\ ~hidden["lb2"] /\ ariaHidden["lb2"] = "false"
    /\ activeElement = "close2"
    /\ bodyOverflowHidden

\* ------------------------------------------------------------- C19

\* The current event is one of the three dismissal triggers of overlay lb.
DismissalTrigger(lb) ==
    \/ event.type = "keydown" /\ event.key = "Escape"
    \/ event.type = "click" /\ event.target = CloseOf[lb]
    \/ event.type = "click" /\ event.target = lb

\* The closeLightbox calls of the dispatch that found overlay lb revealed.
EffectiveCloses(lb) ==
    {i \in DOMAIN calls : calls[i].fn = "closeLightbox" /\ calls[i].lb = lb /\ calls[i].open}

\* The state a dismissal of overlay lb ends in, whichever trigger it was.
Dismissed(lb) ==
    /\ hidden[lb]
    /\ ariaHidden[lb] = "true"
    /\ content[lb] = <<>>
    /\ lastFocusedElement[lb] = Null
    /\ \A i \in EffectiveCloses(lb) :
          /\ ~bodyOverflowHidden
          /\ activeElement = calls[i].shown
          /\ EffectiveCloses(lb) = {i}

\* C19: once the dispatch of an Escape key press, of a click on the close control or
\* of a click on the backdrop of an initialized overlay is over, the overlay is
\* hidden with aria-hidden "true", an empty slot and an empty record; if the
\* overlay was revealed, the scroll lock is removed, focus is on the element that
\* was recorded and exactly one close was effective (a close-control click that
\* bubbles to the overlay closes nothing a second time).
C19_DismissalsInterchangeable ==
    \A lb \in Overlays :
        (Dispatched /\ DismissalTrigger(lb) /\ lightboxInitialized[lb]) => Dismissed(lb)

\* The same statement for the dispatches that closed at most one overlay.
C19_OneOverlayClosed ==
    (\A lb, other \in Overlays :
        (EffectiveCloses(lb) # {} /\ EffectiveCloses(other) # {}) => lb = other)
        => C19_DismissalsInterchangeable

\* Escape with both overlays revealed: both are closed and focus ends on the
\* element recorded by the second, not on the one recorded by the first.
C19_Witness ==
    /\ Dispatched /\ event.type = "keydown" /\ event.key = "Escape"
    /\ Len(calls) = 2
    /\ calls[1].open /\ calls[2].open
    /\ calls[1].lb # calls[2].lb
    /\ activeElement = calls[2].shown
    /\ activeElement # calls[1].shown

\* A click on the close control of a revealed overlay has run the control's
\* listener and then the overlay's, which closed nothing.
C19_BubbledCloseClick ==
    /\ Dispatched /\ event.type = "click" /\ event.target = "close1"
    /\ Len(ran) = 2 /\ ran[2].fn = "backdropClick"
    /\ EffectiveCloses("lb1") = {1}
    /\ Len(calls) = 1

\* ------------------------------------------------------------- C20

\* The overlay the target's listeners open (bound targets only).
OverlayOf(e) == listeners["click"][e][1].lb

\* The listener about to run is a target's click listener, or its keydown listener
\* on Enter or Space.
ActivationStep ==
    /\ ListenerStep
    /\ \/ Head(pending).fn = "targetClick"
       \/ /\ Head(pending).fn = "targetKeydown"
          /\ event.key \in {"Enter", " ", "Spacebar"}

\* What an activation of element e does to the widget, by click or by key: one
\* open, the overlay of e displays e alone, and e is what is recorded.
ActivationEffect(e, lb) ==
    /\ Len(calls') = Len(calls) + 1
    /\ Last(calls').fn = "openLightbox"
    /\ Len(content'[lb]) = 1
    /\ content'[lb][1].cloneOf = e
    /\ \A other \in Overlays \ {lb} : content'[other] = content[other]
    /\ lastFocusedElement' = [lastFocusedElement EXCEPT ![lb] = e]
    /\ ~hidden'[lb]

\* C20: a click on a bound target and an Enter or Space key press on it have the
\* same effect from every state (one open, the target displayed, the target
\* recorded), which is also the state their dispatch ends in; any other key
\* pressed on the target opens nothing and its default action is not prevented.
C20_KeyboardEquivalentToClick ==
    /\ [][ActivationStep
            => ActivationEffect(Head(pending).el, OverlayOf(Head(pending).el))]_vars
    /\ [](\A e \in Elements :
            (lightboxBound[e] /\ Dispatched /\ Activates(e))
                => /\ Len(calls) = 1
                   /\ calls[1].fn = "openLightbox"
                   /\ calls[1].el = e
                   /\ Len(content[OverlayOf(e)]) = 1
                   /\ content[OverlayOf(e)][1].cloneOf = e
                   /\ lastFocusedElement[OverlayOf(e)] = e)
    /\ [](\A e \in Elements :
            (lightboxBound[e] /\ event.type = "keydown" /\ event.target = e
                /\ event.key \notin {"Enter", " ", "Spacebar"})
                => /\ \A i \in DOMAIN calls : calls[i].fn # "openLightbox"
                   /\ ~defaultPrevented)

\* Space pressed on the bound SVG: one open, the SVG displayed and recorded.
C20_Witness ==
    /\ Dispatched /\ event.type = "keydown" /\ event.key = " " /\ event.target = "svg1"
    /\ lightboxBound["svg1"]
    /\ Len(calls) = 1 /\ calls[1].el = "svg1"
    /\ content[OverlayOf("svg1")][1].cloneOf = "svg1"
    /\ lastFocusedElement[OverlayOf("svg1")] = "svg1"
    /\ defaultPrevented

\* Another key pressed on the bound image: nothing opened, default not prevented.
C20_OtherKey ==
    /\ Dispatched /\ event.type = "keydown" /\ event.key = "a" /\ event.target = "img1"
    /\ lightboxBound["img1"]
    /\ Len(ran) >= 1
    /\ calls = <<>>
    /\ ~defaultPrevented

\* ------------------------------------------------------------- C21

\* The page elements that render visual media: the image and the vector graphic.
VisualMedia == {"img1", "svg1"}

\* The element carries nothing of the widget.
Untouched(e) ==
    /\ ~lightboxBound[e]
    /\ attrs[e] = Authored[e]
    /\ \A t \in EventTypes : listeners[t][e] = <<>>

\* C21 as stated: an element that is neither image-like nor vector-graphic-like is
\* ignored whatever selector matched it: no bound marker, no affordance
\* attributes, no click or keydown listener.
C21_OnlyVisualMediaBound ==
    \A e \in Elements \ VisualMedia : Untouched(e)

\* C21: an element that is neither an HTML element nor an SVG element (a MathML
\* element) is ignored whatever selector matched it: no bound marker, no
\* affordance attributes, no click or keydown listener; every HTML or SVG element
\* a bind call has reached, a paragraph included, is bound.
C21_OnlyHtmlOrSvgBound ==
    \A e \in Elements :
        /\ e \notin HTMLElements \cup SVGElements => Untouched(e)
        /\ (e \in HTMLElements \cup SVGElements /\ bindCalls[e] >= 1)
              => /\ lightboxBound[e]
                 /\ attrs[e].cursorZoomIn
                 /\ \A t \in EventTypes : Len(listeners[t][e]) = 1

\* One init call matched the paragraph and the MathML element: the MathML element
\* is untouched, the paragraph is bound and a click on it has opened the overlay
\* on its copy.
C21_Witness ==
    /\ bindCalls["math1"] >= 1 /\ bindCalls["p1"] >= 1
    /\ Untouched("math1")
    /\ lightboxBound["p1"]
    /\ Dispatched /\ event.type = "click" /\ event.target = "p1"
    /\ ~hidden["lb1"]
    /\ content["lb1"][1].cloneOf = "p1"

\* ------------------------------------------------------------- C22

\* The call just made on overlay lb with options o has done the whole setup: the
\* overlay is marked, the document, the close control and the overlay have each
\* gained a listener of this overlay, and every HTML or SVG element the selector
\* matches is bound with one listener of each kind.
FullSetup(lb, o) ==
    /\ lightboxInitialized'[lb]
    /\ listeners'["keydown"]["document"]
         = Append(listeners["keydown"]["document"], [fn |-> "documentKeydown", el |-> Null, lb |-> lb])
    /\ listeners'["click"][CloseOf[lb]]
         = Append(listeners["click"][CloseOf[lb]], [fn |-> "handleClose", el |-> Null, lb |-> lb])
    /\ listeners'["click"][lb]
         = Append(listeners["click"][lb], [fn |-> "backdropClick", el |-> Null, lb |-> lb])
    /\ \A e \in QuerySelectorAll(o.targetSelector) \cap (HTMLElements \cup SVGElements) :
          /\ lightboxBound'[e]
          /\ \A t \in EventTypes : Len(listeners'[t][e]) = 1

\* C22: an initMediaLightbox call that returns because the overlay, the content
\* slot or the close control is missing leaves the initialized markers as they
\* were; and a call with complete markup on an overlay that is not marked, made
\* after such a failure or not, does the whole setup.
C22_FailedInitLeavesNoTrace ==
    /\ [][(InitStep /\ C7_Unresolved(lastInit'))
            => lightboxInitialized' = lightboxInitialized]_vars
    /\ [][\A lb \in Overlays :
            (InitStep /\ lastInit'.lightboxId = lb /\ ~C7_Unresolved(lastInit')
                /\ ~lightboxInitialized[lb])
              => FullSetup(lb, lastInit')]_vars

\* Two calls were made: the first returned for missing markup, the second, with
\* complete markup, has initialized the first overlay and bound image and SVG.
C22_Witness ==
    /\ inits = 2
    /\ lastInit.afterFailure
    /\ lastInit.lightboxId = "lb1"
    /\ ~C7_Unresolved(lastInit)
    /\ lastInit.targetSelector = "img, svg, math"
    /\ lightboxInitialized["lb1"]
    /\ Len(listeners["keydown"]["document"]) = 1
    /\ Len(listeners["click"]["close1"]) = 1
    /\ lightboxBound["img1"] /\ lightboxBound["svg1"]

\* ------------------------------------------------------------- C23

SingleOverlayInitialized == Cardinality({lb \in Overlays : lightboxInitialized[lb]}) <= 1

\* C23: while at most one overlay is initialized (the body starting without the
\* scroll-lock class and nothing else toggling it), the body carries the
\* scroll-lock class exactly when the overlay is revealed.
C23_ScrollLockIffOpen ==
    SingleOverlayInitialized => (bodyOverflowHidden <=> \E lb \in Overlays : ~hidden[lb])

\* After three init calls only the second overlay is initialized; Enter on one of
\* its targets has opened it from Closed: the body is locked.
C23_Witness ==
    /\ SingleOverlayInitialized
    /\ lightboxInitialized["lb2"]
    /\ inits = 3
    /\ JustOpened("lb2") /\ ~Last(calls).open
    /\ event.type = "keydown" /\ event.key = "Enter"
    /\ bodyOverflowHidden

\* The only initialized overlay has just been closed: the body is unlocked.
C23_ClosedUnlocked ==
    /\ SingleOverlayInitialized
    /\ EffectiveClose("lb1")
    /\ hidden["lb1"] /\ hidden["lb2"]
    /\ ~bodyOverflowHidden

\* ------------------------------------------------------------- C24

\* The height the clone is laid out with: its style height, or, the style being
\* auto on an SVG with a viewBox, its width scaled by the box's aspect ratio.
LaidOutHeight ==
    IF Displayed.height.unit = "auto"
    THEN Px(Displayed.width.n * ViewBoxComponents[4][1].v,
            Displayed.width.d * ViewBoxComponents[3][1].v)
    ELSE Displayed.height

\* The clone fits a maxWidth by maxHeight box and touches one of its sides.
FitsReservedBox ==
    LET maxWidth == IF innerWidth - 96 > 320 THEN innerWidth - 96 ELSE 320
        maxHeight == IF innerHeight - 96 > 240 THEN innerHeight - 96 ELSE 240
        width == Displayed.width
        height == LaidOutHeight
    IN  /\ width.unit = "px" /\ width.d > 0
        /\ height.unit = "px" /\ height.d > 0
        /\ width.n <= maxWidth * width.d
        /\ height.n <= maxHeight * height.d
        /\ \/ width.n = maxWidth * width.d
           \/ height.n = maxHeight * height.d

\* C24: whenever the overlay has just opened on an SVG whose viewBox declares a
\* positive width and height, in any window, the clone is at most
\* max(320, innerWidth - 96) wide and at most max(240, innerHeight - 96) high, and
\* one of the two bounds is met exactly.
C24_CloneFitsReservedBox ==
    (SvgOpened /\ DeclaresPositiveBox) => FitsReservedBox

\* The same statement for the viewBoxes whose numbers are separated by whitespace
\* alone.
C24_WhitespaceSeparatedFits == WhitespaceSeparated => C24_CloneFitsReservedBox

\* A viewBox "0,0,400,200" in a 1000 by 300 window: the clone is 904px wide, so it
\* is laid out 452px high in a box 240px high.
C24_Witness ==
    /\ SvgOpened
    /\ DeclaresPositiveBox
    /\ Len(viewBox.value) = 1
    /\ innerWidth = 1000 /\ innerHeight = 300
    /\ Displayed.height = Auto
    /\ SameLength(LaidOutHeight, Px(452, 1))

\* A 3 by 7 box in a 1000 by 800 window is fitted to the height: 704px high and
\* 704*3/7 px wide.
C24_FittedToHeight ==
    /\ SvgOpened
    /\ DeclaresPositiveBox
    /\ ViewBoxComponents[3][1].v = 3 /\ ViewBoxComponents[4][1].v = 7
    /\ innerWidth = 1000 /\ innerHeight = 800
    /\ Displayed.height = Px(704, 1)
    /\ SameLength(Displayed.width, Px(2112, 7))
    /\ FitsReservedBox

\* ------------------------------------------------------------- C25

\* The child of a slot is a copy of its source, stripped of width and height and
\* sized by style when the source is an SVG, a plain copy otherwise.
IsDisplayCopy(child) ==
    /\ ~child.original
    /\ child.styleAttr = Authored[child.cloneOf].style
    /\ IF child.cloneOf \in SVGElements
       THEN /\ child.widthAttr = Null /\ child.heightAttr = Null
            /\ child.width.unit = "px"
            /\ child.height.unit \in {"px", "auto"}
       ELSE /\ child.widthAttr = Authored[child.cloneOf].width
            /\ child.heightAttr = Authored[child.cloneOf].height
            /\ child.width = Unset /\ child.height = Unset

\* C25: whatever opens and closes have happened, every element carries the width,
\* height and style its author wrote and no open or close step changes any of
\* its attributes (they stay as binding left them); what a content slot holds is
\* never the target itself but a copy of it, and only the copy of an SVG has lost
\* width and height and gained a sizing style.
C25_OpenLeavesTargetAlone ==
    /\ [](\A e \in Elements :
            /\ attrs[e].width = Authored[e].width
            /\ attrs[e].height = Authored[e].height
            /\ attrs[e].style = Authored[e].style)
    /\ [](\A lb \in Overlays : \A i \in DOMAIN content[lb] : IsDisplayCopy(content[lb][i]))
    /\ [][ListenerStep => attrs' = attrs]_vars

\* The SVG has been opened in an overlay that displayed the image: the slot holds
\* a copy without width and height, 904px wide; the SVG still carries its own.
C25_Witness ==
    /\ SvgOpened
    /\ Last(calls).open /\ Last(calls).shown = "img1"
    /\ ~Displayed.original
    /\ Displayed.widthAttr = Null /\ Displayed.heightAttr = Null
    /\ Displayed.width = Px(904, 1)
    /\ attrs["svg1"].width = "400" /\ attrs["svg1"].height = "200"
    /\ attrs["svg1"].role = "button"

====
